---- MODULE Spec2Model ----
(***************************************************************************)
(* Model of azuredevops/internal/service/feed/resource_feed.go: the        *)
(* Terraform resource handler for an Azure DevOps feed.                    *)
(*                                                                         *)
(* State: the schema.ResourceData `d` of the one managed resource, the     *)
(* remote feed addressed by (name, project_id), and a record `last` of the *)
(* most recent handler invocation (inputs, remote calls issued in order,   *)
(* returned error).  Each handler is synchronous and single-threaded, so   *)
(* it is one action; the remote calls it issues are logged in order.       *)
(***************************************************************************)
EXTENDS Integers, Sequences, FiniteSets, TLC

VARIABLES d, remote, last

vars == <<d, remote, last>>

(***************************************************************************)
(* Bounds                                                                  *)
(***************************************************************************)
\* Number of feed identifiers the remote service may hand out in one run.
MaxFeedIds == 2

(***************************************************************************)
(* Values                                                                  *)
(***************************************************************************)
\* Go nil (nil error, nil pointer).
Nil == [kind |-> "nil"]

\* A uuid.UUID value.
UUID(n) == [kind |-> "uuid", n |-> n]

\* uuid.UUID.String(): the canonical lower-case text of a UUID.
UUIDString(u) == "uuid-" \o ToString(u.n)

\* The project UUID as the user may write it in configuration
\* (validation.IsUUID accepts upper-case hex), and "" for an unset project_id.
ProjectIdInputs == {"", "uuid-0", "UUID-0"}

\* The service's reading of the Project route argument.
ParseUUID(s) == IF s \in {"uuid-0", "UUID-0"} THEN UUID(0) ELSE Nil

Names == {"pkgs", "libs"}

FeatureKeys == {"permanent_delete", "restore"}

\* d.Get("features"): a list with no element, or one map of flags.
FeatureMaps == UNION {[S -> BOOLEAN] : S \in SUBSET FeatureKeys}

FeaturesInputs == {<<>>} \cup {<<m>> : m \in FeatureMaps}

\* feed.ChangeTypeValues
ChangeTypeValues == [AddOrUpdate |-> "addOrUpdate", Delete |-> "delete", PermanentDelete |-> "permanentDelete"]

\* An error produced by the remote layer (azuredevops.WrappedError).
RemoteError(status) == [kind |-> "WrappedError", status |-> status]

\* fmt.Errorf(format, args...): a new error value holding the formatted text.
Errorf(format, args) == [kind |-> "errorString", format |-> format, args |-> args]

\* utils.ResponseWasNotFound(err)
ResponseWasNotFound(err) == err.kind = "WrappedError" /\ err.status = "NotFound"

\* One remote call as issued by a handler, with what came back.
Call(api, name, project, res) == [api |-> api, name |-> name, project |-> project, err |-> res.err, value |-> res.value]

(***************************************************************************)
(* The remote feed service (feed.Client), as far as one feed slot goes.    *)
(* remote.status: "none" (never created), "live", "deleted" (soft-deleted, *)
(* in the recycle bin), "purged" (permanently deleted).                    *)
(* Every call may also fail for a reason of its own (`fault`).             *)
(***************************************************************************)
Result(r, err, value) == [remote |-> r, err |-> err, value |-> value]

\* Does the request address the slot's feed?
Addresses(r, name, project) == name = r.name /\ ParseUUID(project) = r.project

\* The feed.Feed the service returns for the slot.
FeedOf(r, withProject) == [Id |-> r.id, Name |-> r.name, Project |-> IF withProject /\ r.project # Nil THEN [Id |-> r.project] ELSE Nil]

ClientCreateFeed(r, name, project, fault) ==
  IF fault THEN Result(r, RemoteError("Unavailable"), Nil)
  ELSE IF ~Addresses(r, name, project) THEN Result(r, RemoteError("BadRequest"), Nil)
  ELSE IF r.status \in {"live", "deleted"} THEN Result(r, RemoteError("Conflict"), Nil)
  ELSE LET r2 == [r EXCEPT !.status = "live", !.id = UUID(r.nextId), !.nextId = @ + 1]
       IN Result(r2, Nil, FeedOf(r2, TRUE))

\* shape: "full", "noProject" (a partially populated response), "nilFeed".
ClientGetFeed(r, name, project, env) ==
  IF env.fault THEN Result(r, RemoteError("Unavailable"), Nil)
  ELSE IF ~Addresses(r, name, project) \/ r.status # "live" THEN Result(r, RemoteError("NotFound"), Nil)
  ELSE IF env.shape = "nilFeed" THEN Result(r, Nil, Nil)
  ELSE Result(r, Nil, FeedOf(r, env.shape = "full"))

ClientUpdateFeed(r, name, project, fault) ==
  IF fault THEN Result(r, RemoteError("Unavailable"), Nil)
  ELSE IF ~Addresses(r, name, project) \/ r.status # "live" THEN Result(r, RemoteError("NotFound"), Nil)
  ELSE Result(r, Nil, FeedOf(r, TRUE))

ClientDeleteFeed(r, name, project, fault) ==
  IF fault THEN Result(r, RemoteError("Unavailable"), Nil)
  ELSE IF ~Addresses(r, name, project) \/ r.status # "live" THEN Result(r, RemoteError("NotFound"), Nil)
  ELSE Result([r EXCEPT !.status = "deleted"], Nil, Nil)

ClientPermanentDeleteFeed(r, name, project, fault) ==
  IF fault THEN Result(r, RemoteError("Unavailable"), Nil)
  ELSE IF ~Addresses(r, name, project) \/ r.status # "deleted" THEN Result(r, RemoteError("NotFound"), Nil)
  ELSE Result([r EXCEPT !.status = "purged"], Nil, Nil)

\* shape: "full", "nilChangeType" (a record without changeType), "nilChange".
ClientGetFeedChange(r, name, project, env) ==
  IF env.fault THEN Result(r, RemoteError("Unavailable"), Nil)
  ELSE IF ~Addresses(r, name, project) \/ r.status = "none" THEN Result(r, RemoteError("NotFound"), Nil)
  ELSE IF env.shape = "nilChange" THEN Result(r, Nil, Nil)
  ELSE IF env.shape = "nilChangeType" THEN Result(r, Nil, [ChangeType |-> Nil])
  ELSE Result(r, Nil, [ChangeType |-> [kind |-> "ChangeType", v |-> CASE r.status = "live" -> ChangeTypeValues.AddOrUpdate [] r.status = "deleted" -> ChangeTypeValues.Delete [] OTHER -> ChangeTypeValues.PermanentDelete]])

ClientRestoreDeletedFeed(r, name, project, fault) ==
  IF fault THEN Result(r, RemoteError("Unavailable"), Nil)
  ELSE IF ~Addresses(r, name, project) \/ r.status # "deleted" THEN Result(r, RemoteError("NotFound"), Nil)
  ELSE Result([r EXCEPT !.status = "live"], Nil, Nil)

Faults == BOOLEAN

GetFeedEnvs == [fault : BOOLEAN, shape : {"full", "noProject", "nilFeed"}]

GetFeedChangeEnvs == [fault : BOOLEAN, shape : {"full", "nilChangeType", "nilChange"}]

(***************************************************************************)
(* The handlers.  A world w is [d, remote, calls, restorable]: the         *)
(* ResourceData, the remote feed, the remote calls issued so far in this   *)
(* invocation, and what isFeedRestorable came to ("notcalled", "true",     *)
(* "false", "panic").                                                      *)
(***************************************************************************)
Panic == [kind |-> "panic"]

Logged(w, api, name, project, res) == [w EXCEPT !.remote = res.remote, !.calls = Append(@, Call(api, name, project, res))]

feedFeatures(data) == IF Len(data.features) # 0 THEN data.features[1] ELSE [k \in {} |-> FALSE]

\* Variant of resourceFeedRead: every GetFeed failure is taken for not-found.
resourceFeedRead_AnyErrorIsGone(w, g) ==
  LET name == w.d.name
      projectId == w.d.project_id
      res == ClientGetFeed(w.remote, name, projectId, g)
      w1 == Logged(w, "GetFeed", name, projectId, res)
      getFeed == res.value
  IN IF res.err # Nil
     THEN [w |-> [w1 EXCEPT !.d.id = ""], err |-> Nil]
     ELSE IF getFeed # Nil
          THEN [w |-> [w1 EXCEPT !.d.id = UUIDString(getFeed.Id),
                                 !.d.name = getFeed.Name,
                                 !.d.project_id = IF getFeed.Project # Nil THEN UUIDString(getFeed.Project.Id) ELSE @],
                err |-> Nil]
          ELSE [w |-> w1, err |-> Nil]

\* Variant of resourceFeedRead: project_id is written without the nil guard,
\* so a response without Project empties it.
resourceFeedRead_ClearsProject(w, g) ==
  LET name == w.d.name
      projectId == w.d.project_id
      res == ClientGetFeed(w.remote, name, projectId, g)
      w1 == Logged(w, "GetFeed", name, projectId, res)
      getFeed == res.value
  IN IF res.err # Nil
     THEN IF ResponseWasNotFound(res.err)
          THEN [w |-> [w1 EXCEPT !.d.id = ""], err |-> Nil]
          ELSE [w |-> w1, err |-> Errorf(" reading feed during read: %+v", <<res.err>>)]
     ELSE IF getFeed # Nil
          THEN [w |-> [w1 EXCEPT !.d.id = UUIDString(getFeed.Id),
                                 !.d.name = getFeed.Name,
                                 !.d.project_id = IF getFeed.Project # Nil THEN UUIDString(getFeed.Project.Id) ELSE ""],
                err |-> Nil]
          ELSE [w |-> w1, err |-> Nil]

resourceFeedRead(w, g) ==
  LET name == w.d.name
      projectId == w.d.project_id
      res == ClientGetFeed(w.remote, name, projectId, g)
      w1 == Logged(w, "GetFeed", name, projectId, res)
      getFeed == res.value
  IN IF res.err # Nil
     THEN IF ResponseWasNotFound(res.err)
          THEN [w |-> [w1 EXCEPT !.d.id = ""], err |-> Nil]
          ELSE [w |-> w1, err |-> Errorf(" reading feed during read: %+v", <<res.err>>)]
     ELSE IF getFeed # Nil
          THEN [w |-> [w1 EXCEPT !.d.id = UUIDString(getFeed.Id),
                                 !.d.name = getFeed.Name,
                                 !.d.project_id = IF getFeed.Project # Nil THEN UUIDString(getFeed.Project.Id) ELSE @],
                err |-> Nil]
          ELSE [w |-> w1, err |-> Nil]

isFeedRestorable(w, c) ==
  LET name == w.d.name
      projectId == w.d.project_id
      res == ClientGetFeedChange(w.remote, name, projectId, c)
      w1 == Logged(w, "GetFeedChange", name, projectId, res)
      change == res.value
  IN IF res.err # Nil THEN [w |-> [w1 EXCEPT !.restorable = "false"], ret |-> FALSE, panic |-> FALSE]
     ELSE IF change = Nil \/ change.ChangeType = Nil
          THEN [w |-> [w1 EXCEPT !.restorable = "panic"], ret |-> FALSE, panic |-> TRUE]
          ELSE LET b == change.ChangeType.v = ChangeTypeValues.Delete
               IN [w |-> [w1 EXCEPT !.restorable = IF b THEN "true" ELSE "false"], ret |-> b, panic |-> FALSE]

restoreFeed(w, fault) ==
  LET name == w.d.name
      projectId == w.d.project_id
      res == ClientRestoreDeletedFeed(w.remote, name, projectId, fault)
      w1 == Logged(w, "RestoreDeletedFeed", name, projectId, res)
  IN IF res.err # Nil THEN [w |-> w1, err |-> res.err] ELSE [w |-> w1, err |-> Nil]

CreateRemoteAndRead(w, name, projectId, cf, g) ==
  LET res == ClientCreateFeed(w.remote, name, projectId, cf)
      w1 == Logged(w, "CreateFeed", name, projectId, res)
  IN IF res.err # Nil
     THEN [w |-> w1, err |-> Errorf("creating new feed. Name: %s, Error: %+v", <<name, res.err>>)]
     ELSE resourceFeedRead(w1, g)

\* Variant of resourceFeedCreate: the presence of the restore key is tested,
\* not its value.
resourceFeedCreate_AnyRestoreKey(w, c, rf, cf, g) ==
  LET name == w.d.name
      projectId == w.d.project_id
      features == feedFeatures(w.d)
  IN IF "restore" \in DOMAIN features
     THEN LET chk == isFeedRestorable(w, c)
          IN IF chk.panic THEN [w |-> chk.w, err |-> Panic]
             ELSE IF chk.ret
                  THEN LET rs == restoreFeed(chk.w, rf)
                       IN IF rs.err # Nil
                          THEN [w |-> rs.w, err |-> Errorf("restoring feed. Name: %s, Error: %+v", <<name, rs.err>>)]
                          ELSE resourceFeedRead(rs.w, g)
                  ELSE CreateRemoteAndRead(chk.w, name, projectId, cf, g)
     ELSE CreateRemoteAndRead(w, name, projectId, cf, g)

\* Variant of resourceFeedCreate: after a successful restore it does not
\* return but goes on to CreateFeed.
resourceFeedCreate_FallsThrough(w, c, rf, cf, g) ==
  LET name == w.d.name
      projectId == w.d.project_id
      features == feedFeatures(w.d)
  IN IF "restore" \in DOMAIN features /\ features["restore"]
     THEN LET chk == isFeedRestorable(w, c)
          IN IF chk.panic THEN [w |-> chk.w, err |-> Panic]
             ELSE IF chk.ret
                  THEN LET rs == restoreFeed(chk.w, rf)
                       IN IF rs.err # Nil
                          THEN [w |-> rs.w, err |-> Errorf("restoring feed. Name: %s, Error: %+v", <<name, rs.err>>)]
                          ELSE CreateRemoteAndRead(rs.w, name, projectId, cf, g)
                  ELSE CreateRemoteAndRead(chk.w, name, projectId, cf, g)
     ELSE CreateRemoteAndRead(w, name, projectId, cf, g)

\* Variant of resourceFeedCreate: the restore error is returned as it came.
resourceFeedCreate_BareRestoreError(w, c, rf, cf, g) ==
  LET name == w.d.name
      projectId == w.d.project_id
      features == feedFeatures(w.d)
  IN IF "restore" \in DOMAIN features /\ features["restore"]
     THEN LET chk == isFeedRestorable(w, c)
          IN IF chk.panic THEN [w |-> chk.w, err |-> Panic]
             ELSE IF chk.ret
                  THEN LET rs == restoreFeed(chk.w, rf)
                       IN IF rs.err # Nil
                          THEN [w |-> rs.w, err |-> rs.err]
                          ELSE resourceFeedRead(rs.w, g)
                  ELSE CreateRemoteAndRead(chk.w, name, projectId, cf, g)
     ELSE CreateRemoteAndRead(w, name, projectId, cf, g)

resourceFeedCreate(w, c, rf, cf, g) ==
  LET name == w.d.name
      projectId == w.d.project_id
      features == feedFeatures(w.d)
  IN IF "restore" \in DOMAIN features /\ features["restore"]
     THEN LET chk == isFeedRestorable(w, c)
          IN IF chk.panic THEN [w |-> chk.w, err |-> Panic]
             ELSE IF chk.ret
                  THEN LET rs == restoreFeed(chk.w, rf)
                       IN IF rs.err # Nil
                          THEN [w |-> rs.w, err |-> Errorf("restoring feed. Name: %s, Error: %+v", <<name, rs.err>>)]
                          ELSE resourceFeedRead(rs.w, g)
                  ELSE CreateRemoteAndRead(chk.w, name, projectId, cf, g)
     ELSE CreateRemoteAndRead(w, name, projectId, cf, g)

\* Variant of resourceFeedUpdate: the UpdateFeed error is dropped and Read
\* runs regardless.
resourceFeedUpdate_ReadsAnyway(w, uf, g) ==
  LET name == w.d.name
      projectId == w.d.project_id
      res == ClientUpdateFeed(w.remote, name, projectId, uf)
      w1 == Logged(w, "UpdateFeed", name, projectId, res)
  IN resourceFeedRead(w1, g)

resourceFeedUpdate(w, uf, g) ==
  LET name == w.d.name
      projectId == w.d.project_id
      res == ClientUpdateFeed(w.remote, name, projectId, uf)
      w1 == Logged(w, "UpdateFeed", name, projectId, res)
  IN IF res.err # Nil THEN [w |-> w1, err |-> res.err]
     ELSE resourceFeedRead(w1, g)

\* Variant of resourceFeedDelete: the permanent delete does not look at the
\* permanent_delete flag.
resourceFeedDelete_PurgeAlways(w, df, pf) ==
  LET name == w.d.name
      projectId == w.d.project_id
      res == ClientDeleteFeed(w.remote, name, projectId, df)
      w1 == Logged(w, "DeleteFeed", name, projectId, res)
  IN IF res.err # Nil THEN [w |-> w1, err |-> res.err]
     ELSE LET pres == ClientPermanentDeleteFeed(w1.remote, name, projectId, pf)
              w2 == Logged(w1, "PermanentDeleteFeed", name, projectId, pres)
          IN IF pres.err # Nil THEN [w |-> w2, err |-> pres.err]
             ELSE [w |-> [w2 EXCEPT !.d.id = ""], err |-> Nil]

\* Variant of resourceFeedDelete: the id is never cleared.
resourceFeedDelete_KeepsId(w, df, pf) ==
  LET name == w.d.name
      projectId == w.d.project_id
      features == feedFeatures(w.d)
      res == ClientDeleteFeed(w.remote, name, projectId, df)
      w1 == Logged(w, "DeleteFeed", name, projectId, res)
  IN IF res.err # Nil THEN [w |-> w1, err |-> res.err]
     ELSE IF "permanent_delete" \in DOMAIN features /\ features["permanent_delete"]
          THEN LET pres == ClientPermanentDeleteFeed(w1.remote, name, projectId, pf)
                   w2 == Logged(w1, "PermanentDeleteFeed", name, projectId, pres)
               IN IF pres.err # Nil THEN [w |-> w2, err |-> pres.err]
                  ELSE [w |-> w2, err |-> Nil]
          ELSE [w |-> w1, err |-> Nil]

\* Variant of resourceFeedDelete: the id is cleared right after the soft
\* delete, before the permanent delete is attempted.
resourceFeedDelete_ClearsEarly(w, df, pf) ==
  LET name == w.d.name
      projectId == w.d.project_id
      features == feedFeatures(w.d)
      res == ClientDeleteFeed(w.remote, name, projectId, df)
      w1 == Logged(w, "DeleteFeed", name, projectId, res)
      w1c == [w1 EXCEPT !.d.id = ""]
  IN IF res.err # Nil THEN [w |-> w1, err |-> res.err]
     ELSE IF "permanent_delete" \in DOMAIN features /\ features["permanent_delete"]
          THEN LET pres == ClientPermanentDeleteFeed(w1c.remote, name, projectId, pf)
                   w2 == Logged(w1c, "PermanentDeleteFeed", name, projectId, pres)
               IN IF pres.err # Nil THEN [w |-> w2, err |-> pres.err]
                  ELSE [w |-> w2, err |-> Nil]
          ELSE [w |-> w1c, err |-> Nil]

resourceFeedDelete(w, df, pf) ==
  LET name == w.d.name
      projectId == w.d.project_id
      features == feedFeatures(w.d)
      res == ClientDeleteFeed(w.remote, name, projectId, df)
      w1 == Logged(w, "DeleteFeed", name, projectId, res)
  IN IF res.err # Nil THEN [w |-> w1, err |-> res.err]
     ELSE IF "permanent_delete" \in DOMAIN features /\ features["permanent_delete"]
          THEN LET pres == ClientPermanentDeleteFeed(w1.remote, name, projectId, pf)
                   w2 == Logged(w1, "PermanentDeleteFeed", name, projectId, pres)
               IN IF pres.err # Nil THEN [w |-> w2, err |-> pres.err]
                  ELSE [w |-> [w2 EXCEPT !.d.id = ""], err |-> Nil]
          ELSE [w |-> [w1 EXCEPT !.d.id = ""], err |-> Nil]

(***************************************************************************)
(* The state machine: the orchestrator (Terraform) invokes Create for a    *)
(* resource that is not in state (empty id) and Read, Update, Delete for   *)
(* one that is; the features block is read from configuration at the       *)
(* start of each invocation.                                               *)
(***************************************************************************)
World(f) == [d |-> [d EXCEPT !.features = f], remote |-> remote, calls |-> <<>>, restorable |-> "notcalled"]

Finish(op, w0, out) ==
  /\ d' = out.w.d
  /\ remote' = out.w.remote
  /\ last' = [op |-> op, pre |-> w0.d, remotePre |-> w0.remote, calls |-> out.w.calls, restorable |-> out.w.restorable, err |-> out.err]

Init ==
  /\ \E n \in Names, p \in ProjectIdInputs :
       /\ d = [id |-> "", name |-> n, project_id |-> p, features |-> <<>>]
       /\ remote = [status |-> "none", id |-> Nil, name |-> n, project |-> ParseUUID(p), nextId |-> 1]
  /\ last = [op |-> "none", pre |-> d, remotePre |-> remote, calls |-> <<>>, restorable |-> "notcalled", err |-> Nil]

Create ==
  /\ d.id = ""
  /\ remote.nextId <= MaxFeedIds
  /\ \E f \in FeaturesInputs, c \in GetFeedChangeEnvs, rf \in Faults, cf \in Faults, g \in GetFeedEnvs :
       Finish("Create", World(f), resourceFeedCreate(World(f), c, rf, cf, g))

Read ==
  /\ d.id # ""
  /\ \E f \in FeaturesInputs, g \in GetFeedEnvs :
       Finish("Read", World(f), resourceFeedRead(World(f), g))

Update ==
  /\ d.id # ""
  /\ \E f \in FeaturesInputs, uf \in Faults, g \in GetFeedEnvs :
       Finish("Update", World(f), resourceFeedUpdate(World(f), uf, g))

Delete ==
  /\ d.id # ""
  /\ \E f \in FeaturesInputs, df \in Faults, pf \in Faults :
       Finish("Delete", World(f), resourceFeedDelete(World(f), df, pf))

Next == Create \/ Read \/ Update \/ Delete

Spec == Init /\ [][Next]_vars

(***************************************************************************)
(* Vocabulary of the claims: the log of the most recent invocation.        *)
(***************************************************************************)
CallsOf(api) == SelectSeq(last.calls, LAMBDA c : c.api = api)

Count(api) == Len(CallsOf(api))

\* Position of the first call of `api` in the log, 0 when there is none.
FirstIndex(api) == IF Count(api) = 0 THEN 0 ELSE CHOOSE i \in 1..Len(last.calls) : last.calls[i].api = api /\ \A j \in 1..(i - 1) : last.calls[j].api # api

\* The value of a feature flag in the invocation's input, false when the
\* block or the key is absent.
Flag(key) == Len(last.pre.features) # 0 /\ key \in DOMAIN last.pre.features[1] /\ last.pre.features[1][key]

Failed(c) == c.err # Nil

MutatingApis == {"CreateFeed", "RestoreDeletedFeed", "UpdateFeed"}

MutatingCalls == SelectSeq(last.calls, LAMBDA c : c.api \in MutatingApis)

\* C1: a Create whose features.restore is false (or whose features block is
\* absent) issues no GetFeedChange and no RestoreDeletedFeed, and issues
\* CreateFeed exactly once, with the spec's name and project id.
C1_NoRestoreCreatesOnce ==
  (last.op = "Create" /\ ~Flag("restore")) =>
     /\ Count("GetFeedChange") = 0
     /\ Count("RestoreDeletedFeed") = 0
     /\ Count("CreateFeed") = 1
     /\ CallsOf("CreateFeed")[1].name = last.pre.name
     /\ CallsOf("CreateFeed")[1].project = last.pre.project_id

C1_Witness == last.op = "Create" /\ ~Flag("restore") /\ Len(last.pre.features) = 0 /\ Count("CreateFeed") = 1 /\ last.err = Nil

\* C2: a Create with features.restore true for which isFeedRestorable
\* returned true issues RestoreDeletedFeed exactly once and never CreateFeed,
\* and when the restore succeeded GetFeed (Read) follows it; no Create
\* issues both RestoreDeletedFeed and CreateFeed.
C2_RestoreInsteadOfCreate ==
  /\ (last.op = "Create" /\ Flag("restore") /\ last.restorable = "true") =>
        /\ Count("RestoreDeletedFeed") = 1
        /\ Count("CreateFeed") = 0
        /\ ~Failed(CallsOf("RestoreDeletedFeed")[1]) =>
              /\ Count("GetFeed") = 1
              /\ FirstIndex("GetFeed") = FirstIndex("RestoreDeletedFeed") + 1
  /\ last.op = "Create" => ~(Count("RestoreDeletedFeed") > 0 /\ Count("CreateFeed") > 0)

C2_Witness == last.op = "Create" /\ Flag("restore") /\ last.restorable = "true" /\ Count("RestoreDeletedFeed") = 1 /\ Count("GetFeed") = 1 /\ last.err = Nil

\* C3: every Delete issues DeleteFeed exactly once and first;
\* PermanentDeleteFeed is issued, at most once and after it, exactly when
\* features.permanentDelete is true and the soft delete succeeded.
C3_DeleteOrder ==
  last.op = "Delete" =>
     /\ Count("DeleteFeed") = 1
     /\ last.calls[1].api = "DeleteFeed"
     /\ Count("PermanentDeleteFeed") <= 1
     /\ (Count("PermanentDeleteFeed") = 1) <=> (Flag("permanent_delete") /\ ~Failed(last.calls[1]))
     /\ Count("PermanentDeleteFeed") = 1 => FirstIndex("PermanentDeleteFeed") > FirstIndex("DeleteFeed")

C3_Witness == last.op = "Delete" /\ Flag("permanent_delete") /\ Count("PermanentDeleteFeed") = 1

\* C4: Read turns exactly the not-found failure of GetFeed into success with
\* the id cleared; any other GetFeed failure makes it return the read error.
C4_NotFoundSwallowed ==
  last.op = "Read" =>
     LET g == CallsOf("GetFeed")[1]
     IN /\ Count("GetFeed") = 1
        /\ (Failed(g) /\ g.err.status = "NotFound") => (last.err = Nil /\ d.id = "")
        /\ (Failed(g) /\ g.err.status # "NotFound") => (last.err # Nil /\ last.err.kind = "errorString" /\ last.err.args = <<g.err>> /\ d.id = last.pre.id)
        /\ (last.err = Nil /\ d.id = "") => (Failed(g) /\ g.err.status = "NotFound")

C4_Witness == last.op = "Read" /\ Failed(CallsOf("GetFeed")[1]) /\ CallsOf("GetFeed")[1].err.status = "NotFound" /\ last.pre.id # "" /\ d.id = ""

\* C5: when GetFeed succeeds with a feed, the id becomes the text of that
\* feed's identifier; project_id becomes the text of the response's project
\* id when the response's Project is non-nil and is left as it was otherwise.
C5_ReadPopulates ==
  (Count("GetFeed") = 1 /\ ~Failed(CallsOf("GetFeed")[1]) /\ CallsOf("GetFeed")[1].value # Nil) =>
     LET feed == CallsOf("GetFeed")[1].value
     IN /\ last.err = Nil
        /\ d.id = UUIDString(feed.Id)
        /\ feed.Project # Nil => d.project_id = UUIDString(feed.Project.Id)
        /\ feed.Project = Nil => d.project_id = last.pre.project_id

C5_Witness == last.op = "Read" /\ Count("GetFeed") = 1 /\ ~Failed(CallsOf("GetFeed")[1]) /\ CallsOf("GetFeed")[1].value # Nil /\ CallsOf("GetFeed")[1].value.Project = Nil /\ last.pre.project_id = "UUID-0" /\ d.project_id = "UUID-0"

C5_WitnessOverwrite == last.op = "Read" /\ Count("GetFeed") = 1 /\ ~Failed(CallsOf("GetFeed")[1]) /\ CallsOf("GetFeed")[1].value # Nil /\ CallsOf("GetFeed")[1].value.Project # Nil /\ last.pre.project_id = "UUID-0" /\ d.project_id = "uuid-0"

\* C6 (as claimed): when RestoreDeletedFeed fails during a Create that took
\* the restore branch, the error Create returns is the remote layer's error
\* value itself.
C6_RestoreErrorVerbatim ==
  (last.op = "Create" /\ Count("RestoreDeletedFeed") = 1 /\ Failed(CallsOf("RestoreDeletedFeed")[1])) =>
     last.err = CallsOf("RestoreDeletedFeed")[1].err

\* C6 (amended): in that case Create returns a new error whose text is
\* "restoring feed. Name: <name>, Error: <remote error>": the remote error
\* is formatted into it together with the feed name, and it is not the
\* remote error value.
C6_RestoreErrorFormatted ==
  (last.op = "Create" /\ Count("RestoreDeletedFeed") = 1 /\ Failed(CallsOf("RestoreDeletedFeed")[1])) =>
     /\ last.err = Errorf("restoring feed. Name: %s, Error: %+v", <<last.pre.name, CallsOf("RestoreDeletedFeed")[1].err>>)
     /\ last.err # CallsOf("RestoreDeletedFeed")[1].err
     /\ Count("GetFeed") = 0

C6_Witness == last.op = "Create" /\ Count("RestoreDeletedFeed") = 1 /\ Failed(CallsOf("RestoreDeletedFeed")[1]) /\ last.err.kind = "errorString"

\* C7 (as claimed): after any sequence of completed invocations the id is
\* empty if and only if no live remote feed exists.
C7_IdIffLive == (d.id = "") <=> (remote.status # "live")

\* Did the invocation's GetFeed succeed without returning a feed?
ReadSawNothing == Count("GetFeed") = 1 /\ ~Failed(CallsOf("GetFeed")[1]) /\ CallsOf("GetFeed")[1].value = Nil

\* C7 (amended): after an invocation that reported success, and whose
\* GetFeed (if any) did not come back empty, the id is empty if and only if
\* no live remote feed exists, and a non-empty id is the live feed's
\* identifier.
C7_IdIffLiveAfterSuccess ==
  (last.op # "none" /\ last.err = Nil /\ ~ReadSawNothing) =>
     /\ (d.id = "") <=> (remote.status # "live")
     /\ d.id # "" => d.id = UUIDString(remote.id)

C7_Witness == last.op = "Delete" /\ last.err = Nil /\ last.pre.id # "" /\ d.id = "" /\ remote.status = "deleted"

\* C8 (as claimed): isFeedRestorable returns true exactly when GetFeedChange
\* succeeds with change type Delete, and false, without error or crash, for
\* every other outcome, after which Create goes on to CreateFeed.
C8_RestorableNeverCrashes ==
  (last.op = "Create" /\ Count("GetFeedChange") = 1) =>
     LET c == CallsOf("GetFeedChange")[1]
         isDelete == ~Failed(c) /\ c.value # Nil /\ c.value.ChangeType # Nil /\ c.value.ChangeType.v = ChangeTypeValues.Delete
     IN /\ last.restorable \in {"true", "false"}
        /\ (last.restorable = "true") <=> isDelete
        /\ last.err # Panic
        /\ ~isDelete => Count("CreateFeed") = 1

\* C9: Delete clears the id if and only if every remote step it attempted
\* succeeded; when a step fails Delete returns that step's error and the id
\* stays as it was, non-empty.
C9_DeleteClearsOnFullSuccess ==
  last.op = "Delete" =>
     LET allOk == \A i \in 1..Len(last.calls) : ~Failed(last.calls[i])
     IN /\ (d.id = "") <=> allOk
        /\ allOk <=> (last.err = Nil)
        /\ ~allOk => /\ last.err = last.calls[Len(last.calls)].err
                     /\ d.id = last.pre.id
                     /\ d.id # ""

C9_Witness == last.op = "Delete" /\ Count("PermanentDeleteFeed") = 1 /\ Failed(CallsOf("PermanentDeleteFeed")[1]) /\ d.id # "" /\ remote.status = "deleted"

\* C10: Create and Update issue GetFeed at most once, and only right after
\* their mutating call succeeded; when the mutating call fails they return
\* an error, issue no GetFeed, issue no further remote call, and leave id,
\* name and project_id as they were.
C10_ReadOnlyAfterSuccess ==
  last.op \in {"Create", "Update"} =>
     /\ Count("GetFeed") <= 1
     /\ Count("GetFeed") = 1 =>
           /\ FirstIndex("GetFeed") = Len(last.calls)
           /\ FirstIndex("GetFeed") > 1
           /\ last.calls[Len(last.calls) - 1].api \in MutatingApis
           /\ ~Failed(last.calls[Len(last.calls) - 1])
     /\ (\E i \in 1..Len(MutatingCalls) : Failed(MutatingCalls[i])) =>
           /\ last.err # Nil
           /\ last.err # Panic
           /\ Count("GetFeed") = 0
           /\ Len(MutatingCalls) = 1
           /\ last.calls[Len(last.calls)] = MutatingCalls[1]
           /\ d.id = last.pre.id
           /\ d.name = last.pre.name
           /\ d.project_id = last.pre.project_id

C10_Witness == last.op = "Update" /\ Len(MutatingCalls) = 1 /\ Failed(MutatingCalls[1]) /\ last.err # Nil /\ d.id = last.pre.id /\ d.id # ""

====
